---- MODULE Spec2Model ----
(***************************************************************************)
(* Model of the plc_display_sizeVar jsPsych plugin                        *)
(* (src/Demos/helpers/plc_display_sizeVar_videoCreate.js): the grid        *)
(* sampler, the log-scale size controller, the move_disc tick handler     *)
(* with its ISI phases, the telemetry rows (csv_frameData) and end_trial.  *)
(*                                                                         *)
(* Time is counted in milliseconds since start_time.  Log-scale values     *)
(* are integers in units of ln(2)/2, linear scales are in thousandths.     *)
(***************************************************************************)
EXTENDS Integers, Sequences, FiniteSets, TLC

VARIABLES
    trial,                            \* the trial's parameters (plugin.trial's argument)
    now,                              \* current_time - start_time of the latest tick
    pending,                          \* what will run move_disc next: "call", "raf", "none",
                                      \* or "thrown" once a TypeError has been thrown;
                                      \* "import" while the import loop is still to run
    interval,                         \* the timer of window.setInterval(end_trial): "none",
                                      \* "active", "inert" (no function to call), "cleared"
    finishCount,                      \* calls of jsPsych.finishTrial
    frameCounter,                     \* calls of move_disc
    lastDisplayedFrameIndex,
    hasShownVisibleTickForThisFrame,
    currentDisplayFrameStartTime,
    blankFrameStartTime,
    shouldAdvanceFrame,               \* move_disc's local of the latest tick
    sizeSteps,                        \* calls of updateSizeFactor made by move_disc
    canvas,                           \* what the latest tick drew
    csv_frameData,                    \* the telemetry rows
    downloads,                        \* the CSV contents handed to downloadCSV, in order
    sizecfg,                          \* logMin, logMax, logStepBase
    logScale,
    directionSign,
    currentSizeFactor,
    tuples,                           \* trial.dot_pos: one {id, frame, X, Y} per entry
    dot_pos,                          \* reference-frame position of every dot
    grid,                             \* binX_num, binY_num, offsetFactor
    cell,                             \* the sampler's loop position
    selectedDotIDs                    \* the sampler's selection, in insertion order

vars == <<trial, now, pending, interval, finishCount, frameCounter,
          lastDisplayedFrameIndex, hasShownVisibleTickForThisFrame,
          currentDisplayFrameStartTime, blankFrameStartTime, shouldAdvanceFrame,
          sizeSteps, canvas, csv_frameData, downloads, sizecfg, logScale,
          directionSign, currentSizeFactor, tuples, dot_pos, grid, cell,
          selectedDotIDs>>

tickVars == <<trial, now, pending, interval, finishCount, frameCounter,
              lastDisplayedFrameIndex, hasShownVisibleTickForThisFrame,
              currentDisplayFrameStartTime, blankFrameStartTime,
              shouldAdvanceFrame, sizeSteps, canvas, csv_frameData, downloads>>

sizeVars == <<sizecfg, logScale, directionSign, currentSizeFactor>>

samplerVars == <<tuples, dot_pos, grid, cell, selectedDotIDs>>

\* JavaScript values that may be a number, a string, null or undefined.
Num(n) == [num |-> n]
Str(s) == [str |-> s]
Null == [null |-> TRUE]
Undefined == [undefined |-> TRUE]
Blank == Str("blank")

(***************************************************************************)
(* Bounds of the model.                                                    *)
(***************************************************************************)
MaxLogRange == 4        \* largest logMax - logMin explored by SizeSpec
MaxLogStep == 4         \* largest logStepBase explored by SizeSpec

(***************************************************************************)
(* SizeController                                                          *)
(***************************************************************************)
RECURSIVE Pow2(_)
Pow2(n) == IF n <= 0 THEN 1 ELSE 2 * Pow2(n - 1)

\* Math.exp on a log-scale value k (units of ln(2)/2), in thousandths.
Exp(k) ==
    LET h == k \div 2
        base == IF k % 2 = 1 THEN 1414 ELSE 1000
    IN  IF h >= 0 THEN base * Pow2(h) ELSE base \div Pow2(-h)

\* A step that clamps an out-of-range candidate to the bound it crosses.
SizeStepClamped(ls, cfg, sign) ==
    LET tempScale == ls + sign * cfg.logStepBase
    IN  IF tempScale > cfg.logMax
        THEN [logScale |-> cfg.logMax, directionSign |-> -sign]
        ELSE IF tempScale < cfg.logMin
             THEN [logScale |-> cfg.logMin, directionSign |-> -sign]
             ELSE [logScale |-> tempScale, directionSign |-> sign]

\* updateSizeFactor: sign is the drawn direction (Math.random() < 0.5 ? 1 : -1).
SizeStep(ls, cfg, sign) ==
    LET tempScale == ls + sign * cfg.logStepBase
    IN  IF tempScale > cfg.logMax \/ tempScale < cfg.logMin
        THEN [logScale |-> ls + (-sign) * cfg.logStepBase, directionSign |-> -sign]
        ELSE [logScale |-> ls + sign * cfg.logStepBase, directionSign |-> sign]

\* A step that keeps the direction of the step before it when
\* trial.keepScalingDirection is set, and draws a direction only otherwise.
updateSizeFactorKeepingDirection(sign) ==
    LET used == IF trial.keepScalingDirection = TRUE THEN directionSign ELSE sign
        r == SizeStep(logScale, sizecfg, used)
    IN  /\ logScale' = r.logScale
        /\ directionSign' = r.directionSign
        /\ currentSizeFactor' = Exp(r.logScale)
        /\ UNCHANGED sizecfg

updateSizeFactor(sign) ==
    LET r == SizeStep(logScale, sizecfg, sign)
    IN  /\ logScale' = r.logScale
        /\ directionSign' = r.directionSign
        /\ currentSizeFactor' = Exp(r.logScale)
        /\ UNCHANGED sizecfg

getPixelScale == currentSizeFactor

(***************************************************************************)
(* Trial setup: frame count and trial duration                             *)
(***************************************************************************)
DataFrames == 3         \* distinct frame numbers in trial.dot_pos
ExplicitFrames == 2     \* frames an explicit trial.trial_duration lasts at trial.fps
MaxTickGap == 2         \* longest time (ms) between two display refreshes

FpsValues == {500}
IsiValues == {0, 2}
FrameDurValues == {0, 3}
\* Explicit values of trial.trial_duration (ms): a positive one, zero, a negative one.
ExplicitDurations ==
    UNION { { Num(ExplicitFrames * (1000 \div fps)), Num(0), Num(-(1000 \div fps)) } :
              fps \in FpsValues }

\* The trials explored: frameDur is only read in hold mode.
Trials ==
    { t \in [fps : FpsValues, isi : IsiValues, isiSlows : BOOLEAN,
             isiMode : {"blank", "hold"}, frameDur : FrameDurValues,
             reversePlayback : BOOLEAN, sizeVariation : BOOLEAN, static : {FALSE},
             random_frame : {0},
             trial_duration : {Undefined} \cup ExplicitDurations] :
        t.isiMode = "blank" => t.frameDur = 3 }

FramePeriodMs == 1000 \div trial.fps

cutFrame == 0
cycleNum == 1

\* frame_num after lines 582-589.
frame_num ==
    IF trial.trial_duration = Undefined
    THEN (DataFrames - cutFrame) * cycleNum
    ELSE trial.trial_duration.num \div FramePeriodMs

\* trial_duration (ms) after lines 584-589, before the ISI adjustment.
baseDuration ==
    IF trial.trial_duration = Undefined
    THEN frame_num * FramePeriodMs
    ELSE trial.trial_duration.num

\* (frame_num - 1) * (trial.isi / 1000), in ms.
oneCycleIsi == (frame_num - 1) * trial.isi

\* An ISI adjustment that extends the duration whatever trial.isiSlows is.
trial_durationAlwaysSlowed ==
    IF trial.isi > 0 THEN baseDuration + oneCycleIsi ELSE baseDuration

\* trial_duration (ms) after the ISI adjustment of lines 716-724.
trial_duration ==
    IF trial.isi > 0 /\ trial.isiSlows = TRUE
    THEN baseDuration + oneCycleIsi
    ELSE baseDuration

(***************************************************************************)
(* FrameScheduler: move_disc                                               *)
(***************************************************************************)
Max(a, b) == IF a >= b THEN a ELSE b
Min(a, b) == IF a <= b THEN a ELSE b

\* The leading decimal digit of the number p/q, 0 < p/q < 1.
RECURSIVE LeadingDigit(_, _)
LeadingDigit(p, q) == IF p >= q THEN p \div q ELSE LeadingDigit(10 * p, q)

\* parseInt(n) for the number n = p/q >= 0 (below 1e21): parseInt reads the digits
\* that String(n) starts with. String(n) is decimal notation from 1e-6 upwards, and
\* exponent notation "d.ddde-k" for 0 < n < 1e-6, of which parseInt reads the d.
parseInt(p, q) ==
    IF p = 0 \/ 1000000 * p >= q THEN p \div q ELSE LeadingDigit(p, q)

\* parseInt(percent_time * frame_num), percent_time = time_elapsed / trial_duration
RawIndex(t) == parseInt(t * frame_num, trial_duration)

\* lines 949-955: the target index mapped from the elapsed time t.
TargetIndex(t) ==
    LET raw == IF trial.reversePlayback THEN frame_num - 1 - RawIndex(t) ELSE RawIndex(t)
    IN  Max(0, Min(raw, frame_num - 1))

\* lines 900-906: the tick at elapsed time t ends the trial.
TrialOver(t) ==
    \/ trial.trial_duration # Undefined /\ trial.trial_duration.num # 0
         /\ t >= trial.trial_duration.num
    \/ ~(t < trial_duration)

\* The scaling factor a visible row records: currentScalingDirection || 0.
currentScalingDirection == 0
RecordedScale == IF currentScalingDirection # 0 THEN currentScalingDirection ELSE 0

\* Positions of dot d at frame f (trial.dot_pos after lines 542-577).
dot_posX(d, f) == dot_pos[d].x + f * d
dot_posY(d, f) == dot_pos[d].y + f

SetMax(S) == CHOOSE m \in S : \A e \in S : e <= m
SetMin(S) == CHOOSE m \in S : \A e \in S : m <= e

\* calculateClothCenter over the reference frame, doubled to stay integral.
clothCenterX2 ==
    LET xs == { dot_pos[d].x : d \in DOMAIN dot_pos }
    IN  2 * SetMin(xs) + (SetMax(xs) - SetMin(xs))
clothCenterY2 ==
    LET ys == { dot_pos[d].y : d \in DOMAIN dot_pos }
    IN  2 * SetMin(ys) + (SetMax(ys) - SetMin(ys))

\* lines 1000-1001: a drawn coordinate, in 1/2000 px, for a scale in thousandths.
Scaled(center2, orig, scale) == center2 * 1000 + (2 * orig - center2) * scale

\* line 797: the number of ids the renderer is to loop over.
total_neededDot == grid.binX_num * grid.binY_num

\* The length of the array shuffle(dotIndices) returns for n indices: shuffle is not
\* part of this file; it is taken to return its argument's elements in some order.
shuffle(n) == n

\* The length of a.slice(0, n) for an array a of length len.
SliceLength(len, n) == IF n >= 0 THEN Min(n, len) ELSE Max(len + n, 0)

\* lines 798-805: the length of selectedDotIDs as the renderer reads it, after it
\* has been overwritten with shuffledIndices.slice(0, total_neededDot).
DrawnCount == SliceLength(shuffle(Len(dot_pos)), total_neededDot)

\* lines 993-996, 1064-1067: selected_dot_posX[i] is undefined for some i the
\* renderer's loop reaches, and reading its element throws a TypeError.
RendererThrows == DrawnCount > Len(selectedDotIDs)

\* lines 808-815: the frame a static display shows, trial.random_frame when given.
random_frame == trial.random_frame

\* lines 994-1006, 1065-1075: the frame whose positions a visible tick reads and
\* the scale it applies to them when the displayed index is idx: the frame idx at
\* the current scale, or for a static display the frame parseInt(random_frame) as
\* it is, unscaled.
shownFrame(idx) == IF trial.static = FALSE THEN idx ELSE parseInt(random_frame, 1)
shownScale(scale) == IF trial.static = FALSE THEN scale ELSE 1000

\* inFrame_x and inFrame_y of a visible tick whose displayed index is idx, at the
\* given scale.
inFrame_x(idx, scale) ==
    { Scaled(clothCenterX2, dot_posX(selectedDotIDs[i], shownFrame(idx)), shownScale(scale)) :
        i \in 1..DrawnCount }
inFrame_y(idx, scale) ==
    { Scaled(clothCenterY2, dot_posY(selectedDotIDs[i], shownFrame(idx)), shownScale(scale)) :
        i \in 1..DrawnCount }

\* Math.max(...a) - Math.min(...a): -Infinity - Infinity for an empty a.
NegInfinity == [neginfinity |-> TRUE]
Extent(S) == SetMax(S) - SetMin(S)
ExtentOf(S) == IF S = {} THEN NegInfinity ELSE Num(Extent(S))

\* lines 698-708: the length of every selected trajectory once the first cutFrame
\* frames are spliced off and the cycle loop has concatenated it with itself
\* cycleNum times.
trajectoryLength == (DataFrames - cutFrame) * Pow2(cycleNum)

\* selected_dot_posX[i][idx] is undefined from idx = trajectoryLength on: the
\* position computed from it is NaN, and so is the extent of a frame of them.
NaN == [nan |-> TRUE]
PositionExists(idx) == 0 <= idx /\ idx < trajectoryLength
FrameExtent(S, idx) == IF S # {} /\ ~PositionExists(idx) THEN NaN ELSE ExtentOf(S)

VisibleRow(t, tInFrame, idx, scale) ==
    [clothWidth |-> FrameExtent(inFrame_x(idx, scale), shownFrame(idx)),
     clothHeight |-> FrameExtent(inFrame_y(idx, scale), shownFrame(idx)),
     scalingFactor |-> Num(RecordedScale),
     isi |-> trial.isi, isiSlows |-> trial.isiSlows, displayFrameNumber |-> Num(idx),
     timeElapsed |-> t, timeInCurrentDisplayFrame |-> tInFrame,
     isiMode |-> trial.isiMode]

\* The blank branch pushing currentScalingDirection || 0 like the visible branches.
BlankRowWithScale(t, tInFrame) ==
    [clothWidth |-> Null, clothHeight |-> Null, scalingFactor |-> Num(RecordedScale),
     isi |-> trial.isi, isiSlows |-> trial.isiSlows, displayFrameNumber |-> Blank,
     timeElapsed |-> t, timeInCurrentDisplayFrame |-> tInFrame,
     isiMode |-> trial.isiMode]

\* lines 1119-1127: the row of a blank tick.
BlankRow(t, tInFrame) ==
    [clothWidth |-> Null, clothHeight |-> Null, scalingFactor |-> Null,
     isi |-> trial.isi, isiSlows |-> trial.isiSlows, displayFrameNumber |-> Blank,
     timeElapsed |-> t, timeInCurrentDisplayFrame |-> tInFrame,
     isiMode |-> trial.isiMode]

\* The pushes of a tick onto csv_frameData, with the blank branch's pushes left out.
PushRowSkipsBlank(row) ==
    IF row.displayFrameNumber = Blank THEN csv_frameData ELSE Append(csv_frameData, row)

\* lines 1029-1037, 1096-1104, 1119-1127: one push onto each column of csv_frameData.
PushRow(row) == Append(csv_frameData, row)

\* Blank mode advancing on the tick after the visible one, gap elapsed or not.
AdvanceIgnoresGap(t, start0) ==
    IF trial.isiMode = "hold"
    THEN t - start0 >= trial.frameDur
    ELSE hasShownVisibleTickForThisFrame

\* Hold mode advancing on every tick, frameDur elapsed or not.
AdvanceIgnoresFrameDur(t, start0) ==
    IF trial.isiMode = "hold"
    THEN TRUE
    ELSE /\ hasShownVisibleTickForThisFrame
         /\ (trial.isi = 0 \/ t - blankFrameStartTime >= trial.isi)

\* Blank mode waiting for frameDur after the visible tick instead of for isi.
AdvanceAfterFrameDur(t, start0) ==
    IF trial.isiMode = "hold"
    THEN t - start0 >= trial.frameDur
    ELSE /\ hasShownVisibleTickForThisFrame
         /\ t - blankFrameStartTime >= trial.frameDur

\* Blank mode advancing only once more than isi has passed since the visible tick.
AdvanceAfterGapStrictly(t, start0) ==
    IF trial.isiMode = "hold"
    THEN t - start0 >= trial.frameDur
    ELSE /\ hasShownVisibleTickForThisFrame
         /\ (trial.isi = 0 \/ t - blankFrameStartTime > trial.isi)

\* lines 926-944: whether the tick at time t may advance the frame.
AdvancePermitted(t, start0) ==
    IF trial.isiMode = "hold"
    THEN t - start0 >= trial.frameDur
    ELSE /\ hasShownVisibleTickForThisFrame
         /\ (trial.isi = 0 \/ t - blankFrameStartTime >= trial.isi)

\* A size step on every permitted advance, the index changed or not.
StepsSizeOnEveryAdvance(prev, next) == trial.sizeVariation = TRUE

\* lines 961-963: whether the advance from index prev to index next steps the size.
StepsSize(prev, next) == trial.sizeVariation = TRUE /\ next # prev

\* Whether end_trial holds its function: "var end_trial = function ..." is assigned
\* at line 1184, after the first call of move_disc at line 880 has returned.
end_trial_assigned == pending # "call"

\* window.setInterval(end_trial): a timer that calls end_trial, or, given undefined,
\* one that has no function to call.
SetInterval == IF end_trial_assigned THEN "active" ELSE "inert"

\* The index of lines 910-919 (frameIndex, mapped from the elapsed time on every
\* tick) displayed in place of lastDisplayedFrameIndex.
DisplayIndexEveryTick(adv, idx0, t) == TargetIndex(t)

\* An advance that moves to the frame after the one displayed.
DisplayIndexPlusOne(adv, idx0, t) ==
    IF adv THEN Min(idx0 + 1, frame_num - 1) ELSE idx0

\* An advance that changes the displayed index only while the size controller's
\* latest step grew the cloth.
DisplayIndexWhileGrowing(adv, idx0, t) ==
    IF adv /\ (trial.sizeVariation = FALSE \/ directionSign = 1)
    THEN TargetIndex(t)
    ELSE idx0

\* lines 947-958: lastDisplayedFrameIndex after the advance logic of the tick at
\* time t, idx0 being its value before.
DisplayIndex(adv, idx0, t) == IF adv THEN TargetIndex(t) ELSE idx0

\* The canvas after clearRect and count calls of drawDots for frame idx.
Drawn(count, idx, scale) ==
    IF count = 0 \/ ~PositionExists(shownFrame(idx))
    THEN [kind |-> "cleared"]
    ELSE [kind |-> "dots", index |-> shownFrame(idx), scale |-> shownScale(scale)]

\* One call of move_disc at elapsed time t (ms).
move_disc(t) ==
    LET idx0 == IF lastDisplayedFrameIndex = -1 THEN 0 ELSE lastDisplayedFrameIndex
        start0 == IF lastDisplayedFrameIndex = -1 THEN t ELSE currentDisplayFrameStartTime
        tInFrame == t - start0
        adv == AdvancePermitted(t, start0)
        idx1 == DisplayIndex(adv, idx0, t)
        step == adv /\ StepsSize(idx0, idx1)
        shown1 == IF adv THEN FALSE ELSE hasShownVisibleTickForThisFrame
        scale == IF trial.sizeVariation = TRUE THEN currentSizeFactor' ELSE 1000
    IN  /\ now' = t
        /\ frameCounter' = frameCounter + 1
        /\ UNCHANGED <<trial, finishCount, downloads, samplerVars>>
        /\ IF TrialOver(t)
           THEN /\ lastDisplayedFrameIndex' = idx0
                /\ currentDisplayFrameStartTime' = start0
                /\ pending' = "none"
                /\ interval' = SetInterval
                /\ canvas' = [kind |-> "cleared"]
                /\ shouldAdvanceFrame' = FALSE
                /\ UNCHANGED <<hasShownVisibleTickForThisFrame, blankFrameStartTime,
                               sizeSteps, csv_frameData, sizeVars>>
           ELSE /\ lastDisplayedFrameIndex' = idx1
                /\ currentDisplayFrameStartTime' = (IF adv THEN t ELSE start0)
                /\ shouldAdvanceFrame' = adv
                /\ IF step
                   THEN /\ \E sign \in {1, -1} : updateSizeFactor(sign)
                        /\ sizeSteps' = sizeSteps + 1
                   ELSE UNCHANGED <<sizeSteps, sizeVars>>
                /\ IF trial.isiMode = "hold" \/ ~shown1
                   THEN IF RendererThrows
                        THEN /\ canvas' = Drawn(Len(selectedDotIDs), idx1, scale)
                             /\ hasShownVisibleTickForThisFrame' = shown1
                             /\ pending' = "thrown"
                             /\ UNCHANGED <<csv_frameData, blankFrameStartTime>>
                        ELSE /\ canvas' = Drawn(DrawnCount, idx1, scale)
                             /\ csv_frameData' = PushRow(VisibleRow(t, tInFrame, idx1, scale))
                             /\ pending' = "raf"
                             /\ IF trial.isiMode = "hold"
                                THEN /\ hasShownVisibleTickForThisFrame' = shown1
                                     /\ UNCHANGED blankFrameStartTime
                                ELSE /\ hasShownVisibleTickForThisFrame' = TRUE
                                     /\ blankFrameStartTime' = t
                   ELSE /\ canvas' = [kind |-> "cleared"]
                        /\ csv_frameData' = PushRow(BlankRow(t, tInFrame))
                        /\ hasShownVisibleTickForThisFrame' = shown1
                        /\ pending' = "raf"
                        /\ UNCHANGED blankFrameStartTime
                /\ UNCHANGED interval

\* line 880: plugin.trial calls move_disc itself, right after taking start_time.
StartTrial ==
    /\ pending = "call"
    /\ ~(cell.x < grid.binX_num /\ cell.y < grid.binY_num)
    /\ move_disc(0)

\* The display-refresh callback requested at line 1129.
Refresh ==
    /\ pending = "raf"
    /\ \E gap \in 1..MaxTickGap : move_disc(now + gap)

\* A row's cell as CSV text: the empty string for null, the value's text otherwise.
CsvCell(v) == IF v = Null THEN Str("") ELSE v

\* lines 1159-1177: the data rows of the CSV, one per entry of csv_frameData.
generateFrameByFrameCSV ==
    [i \in DOMAIN csv_frameData |->
        [csv_frameData[i] EXCEPT !.clothWidth = CsvCell(@), !.clothHeight = CsvCell(@),
                                 !.scalingFactor = CsvCell(@)]]

\* end_trial, run by the timer set at lines 902 and 1132.
end_trial ==
    /\ interval = "active"
    /\ downloads' = Append(downloads, generateFrameByFrameCSV)
    /\ interval' = "cleared"
    /\ finishCount' = finishCount + 1
    /\ UNCHANGED <<trial, now, pending, frameCounter, lastDisplayedFrameIndex,
                   hasShownVisibleTickForThisFrame, currentDisplayFrameStartTime,
                   blankFrameStartTime, shouldAdvanceFrame, sizeSteps, canvas,
                   csv_frameData, sizeVars, samplerVars>>

(***************************************************************************)
(* Import: trial.dot_pos regrouped into one trajectory per dot             *)
(***************************************************************************)
\* lines 555-556: the numbers of distinct frame values and distinct ids.
importFrameNum == Cardinality({ tuples[i].frame : i \in DOMAIN tuples })
dot_num == Cardinality({ tuples[i].id : i \in DOMAIN tuples })

\* lines 559-577: the loops read dot_pos[t] for t = 0 .. frame_num*dot_num - 1 and
\* take .X of it, a TypeError once t is past the end of the array.
ImportThrows == importFrameNum * dot_num > Len(tuples)

\* lines 565-566: dot_posX[m][f] and dot_posY[m][f], the (f*dot_num + m)-th entry
\* read, whatever its id and frame fields say (m counted from 1, f from 0).
importedX(m, f) == tuples[f * dot_num + m].X
importedY(m, f) == tuples[f * dot_num + m].Y

\* The reference frame (f = 0) of the regrouped trajectories.
ImportedDots == [m \in 1..dot_num |-> [x |-> importedX(m, 0), y |-> importedY(m, 0)]]

\* lines 542-577, run once when plugin.trial starts.
Import ==
    /\ pending = "import"
    /\ IF ImportThrows
       THEN /\ pending' = "thrown"
            /\ UNCHANGED dot_pos
       ELSE /\ pending' = "call"
            /\ dot_pos' = ImportedDots
    /\ UNCHANGED <<trial, now, interval, finishCount, frameCounter,
                   lastDisplayedFrameIndex, hasShownVisibleTickForThisFrame,
                   currentDisplayFrameStartTime, blankFrameStartTime,
                   shouldAdvanceFrame, sizeSteps, canvas, csv_frameData, downloads,
                   sizeVars, tuples, grid, cell, selectedDotIDs>>

(***************************************************************************)
(* Sampler: the grid selection loop                                        *)
(***************************************************************************)
MaxDots == 3            \* most dots in trial.dot_pos explored by SamplerSpec

Coords == 0..2
GridValues == {-1, 0, 1, 2}
OffsetValues == {0, 1}
\* Math.random() - 0.5, in quarters
Jitters == {-2, -1, 0, 1}

\* The cap on the selection taken from one grid dimension alone.
dotsNeededOneRow == grid.binX_num

\* line 616
dotsNeeded == grid.binX_num * grid.binY_num

minX == SetMin({ dot_pos[d].x : d \in DOMAIN dot_pos })
minY == SetMin({ dot_pos[d].y : d \in DOMAIN dot_pos })
clothWidth == Extent({ dot_pos[d].x : d \in DOMAIN dot_pos })
clothHeight == Extent({ dot_pos[d].y : d \in DOMAIN dot_pos })

\* Coordinates are multiplied by AnchorScale so that the anchors are integers.
AnchorScale == 4 * grid.binX_num * grid.binY_num

\* lines 630-631: offsetX and offsetY of cell (x, y) for the draws jx, jy.
offsetX(x, jx) ==
    AnchorScale * minX + (4 * x + grid.offsetFactor * jx + 2) * clothWidth * grid.binY_num
offsetY(y, jy) ==
    AnchorScale * minY + (4 * y + grid.offsetFactor * jy + 2) * clothHeight * grid.binX_num

\* line 636, squared: the order of the distances is the order of their squares.
Distance2(d, ax, ay) ==
    (AnchorScale * dot_pos[d].x - ax) * (AnchorScale * dot_pos[d].x - ax)
      + (AnchorScale * dot_pos[d].y - ay) * (AnchorScale * dot_pos[d].y - ay)

\* The order of a sort that puts the later of two equally distant dots first.
CloserTiesLast(d, e, ax, ay) ==
    \/ Distance2(d, ax, ay) < Distance2(e, ax, ay)
    \/ Distance2(d, ax, ay) = Distance2(e, ax, ay) /\ d >= e

\* d comes before e in closestDotIDs after the (stable) sort of line 641.
Closer(d, e, ax, ay) ==
    \/ Distance2(d, ax, ay) < Distance2(e, ax, ay)
    \/ Distance2(d, ax, ay) = Distance2(e, ax, ay) /\ d <= e

Selected == { selectedDotIDs[i] : i \in DOMAIN selectedDotIDs }

\* The candidates of a cell when the includes() test of line 647 is left out.
CandidatesAll == DOMAIN dot_pos

\* lines 645-649: the dots the scan of closestDotIDs does not skip.
Candidates == DOMAIN dot_pos \ Selected

\* lines 645-663: the dots a cell adds (at most dotsPerBin = 1) for anchor (ax, ay).
CellPick(ax, ay) ==
    IF Candidates = {} \/ Len(selectedDotIDs) >= dotsNeeded
    THEN <<>>
    ELSE <<CHOOSE d \in Candidates : \A e \in Candidates : Closer(d, e, ax, ay)>>

\* The draws that reach the anchor: a zero offsetFactor multiplies every draw away.
DrawsRead == IF grid.offsetFactor = 0 THEN {0} ELSE Jitters

NextCell ==
    IF cell.y + 1 < grid.binY_num
    THEN [x |-> cell.x, y |-> cell.y + 1]
    ELSE [x |-> cell.x + 1, y |-> 0]

\* One pass of the body of the loops of lines 626-665.
SampleCell ==
    /\ cell.x < grid.binX_num
    /\ cell.y < grid.binY_num
    /\ \E jx \in DrawsRead, jy \in DrawsRead :
         selectedDotIDs' = selectedDotIDs \o CellPick(offsetX(cell.x, jx), offsetY(cell.y, jy))
    /\ cell' = NextCell
    /\ UNCHANGED <<tuples, dot_pos, grid, tickVars, sizeVars>>

SamplingDone == ~(cell.x < grid.binX_num /\ cell.y < grid.binY_num)

(***************************************************************************)
(* Geometry: the re-centring pass of trial.centerCloth == true             *)
(***************************************************************************)
\* [w / 2, h / 2] of the window.
screenCenter == [x |-> 5, y |-> 4]

\* lines 675-676, doubled: screenCenter minus the cloth centre of line 598, which
\* calculateClothCenter took over the reference frame of every dot of the input.
deltaX2 == 2 * screenCenter.x - clothCenterX2
deltaY2 == 2 * screenCenter.y - clothCenterY2

\* lines 679-690: allX and allY, doubled, refilled from the moved reference frame
\* of the selected trajectories.
movedX2 == { 2 * dot_pos[selectedDotIDs[i]].x + deltaX2 : i \in DOMAIN selectedDotIDs }
movedY2 == { 2 * dot_pos[selectedDotIDs[i]].y + deltaY2 : i \in DOMAIN selectedDotIDs }

\* lines 673-691: allX and allY, doubled, as the size setup of lines 732-733 reads
\* them: emptied at line 673 and refilled only under trial.centerCloth == true.
allX2(centerCloth) == IF centerCloth = TRUE THEN movedX2 ELSE {}
allY2(centerCloth) == IF centerCloth = TRUE THEN movedY2 ELSE {}

\* lines 692-694: calculateClothCenter(allX, allY) after the move, times 4.
recenteredX4 == 2 * SetMin(movedX2) + Extent(movedX2)
recenteredY4 == 2 * SetMin(movedY2) + Extent(movedY2)

(***************************************************************************)
(* Specifications                                                          *)
(***************************************************************************)
TickSizeCfg == [logMin |-> -2, logMax |-> 2, logStepBase |-> 1]
TickLogScales == {-2, 1}
TickDots == <<[x |-> 0, y |-> 0], [x |-> 2, y |-> 1]>>

\* The well-formed trial.dot_pos whose import gives the dots: frame by frame, the
\* dots in order within each frame, DataFrames frames.
TuplesOf(dots) ==
    [t \in 1..(Len(dots) * DataFrames) |->
        LET m == ((t - 1) % Len(dots)) + 1
            f == (t - 1) \div Len(dots)
        IN  [id |-> m - 1, frame |-> f, X |-> dots[m].x + f * m, Y |-> dots[m].y + f]]

\* The import loop has run over a well-formed input.
InitImported == tuples = TuplesOf(dot_pos)

InitTickVars ==
    /\ now = 0
    /\ pending = "call"
    /\ interval = "none"
    /\ finishCount = 0
    /\ frameCounter = 0
    /\ lastDisplayedFrameIndex = -1
    /\ hasShownVisibleTickForThisFrame = FALSE
    /\ currentDisplayFrameStartTime = 0
    /\ blankFrameStartTime = 0
    /\ shouldAdvanceFrame = FALSE
    /\ sizeSteps = 0
    /\ canvas = [kind |-> "cleared"]
    /\ csv_frameData = <<>>
    /\ downloads = <<>>

InitSampled ==
    /\ dot_pos = TickDots
    /\ grid = [binX_num |-> 2, binY_num |-> 1, offsetFactor |-> 0]
    /\ cell = [x |-> 2, y |-> 0]
    /\ selectedDotIDs = <<1, 2>>

Init ==
    /\ trial \in Trials
    /\ InitTickVars
    /\ InitSampled
    /\ sizecfg = TickSizeCfg
    /\ logScale \in TickLogScales
    /\ directionSign \in {1, -1}
    /\ currentSizeFactor = Exp(logScale)
    /\ InitImported

Next == StartTrial \/ Refresh \/ end_trial

Spec == Init /\ [][Next]_vars

\* The host keeps delivering what was requested: the call of line 880, every
\* display refresh requested at line 1129, and the timer set at lines 902, 1132.
LiveSpec ==
    /\ Init /\ [][Next]_vars
    /\ WF_vars(StartTrial) /\ WF_vars(Refresh) /\ WF_vars(end_trial)

\* Trials with size variation that also set the four size options the parameter
\* list declares: keepScalingDirection, scalingDirectionSteps, sizeVariationMode
\* and interpolationFrameCount.
OptionTrials ==
    [fps : FpsValues, isi : {2}, isiSlows : {FALSE}, isiMode : {"blank", "hold"},
     frameDur : {3}, reversePlayback : {FALSE}, sizeVariation : {TRUE}, static : {FALSE},
             random_frame : {0},
     trial_duration : {Undefined},
     keepScalingDirection : BOOLEAN, scalingDirectionSteps : {1, 3},
     sizeVariationMode : {"frameByFrame", "interpolated"},
     interpolationFrameCount : {2, 100}]

OptionInit ==
    /\ trial \in OptionTrials
    /\ InitTickVars
    /\ InitSampled
    /\ sizecfg = TickSizeCfg
    /\ logScale \in TickLogScales
    /\ directionSign = 1
    /\ currentSizeFactor = Exp(logScale)
    /\ InitImported

OptionSpec == OptionInit /\ [][Next]_vars

\* Trials whose explicit duration lasts one frame longer than the trajectories.
LongTrials ==
    { t \in [fps : FpsValues, isi : {0}, isiSlows : {FALSE}, isiMode : {"blank", "hold"},
             frameDur : FrameDurValues, reversePlayback : BOOLEAN,
             sizeVariation : {FALSE}, static : {FALSE},
             random_frame : {0},
             trial_duration : { Num((trajectoryLength + 1) * (1000 \div fps)) :
                                  fps \in FpsValues }] :
        t.isiMode = "blank" => t.frameDur = 3 }

LongInit ==
    /\ trial \in LongTrials
    /\ InitTickVars
    /\ InitSampled
    /\ sizecfg = TickSizeCfg
    /\ logScale = 0
    /\ directionSign = 1
    /\ currentSizeFactor = Exp(logScale)
    /\ InitImported

LongSpec == LongInit /\ [][Next]_vars

\* Static displays: trial.static set, showing the frame trial.random_frame.
StaticTrials ==
    { t \in [fps : FpsValues, isi : IsiValues, isiSlows : {FALSE},
             isiMode : {"blank", "hold"}, frameDur : FrameDurValues,
             reversePlayback : {FALSE}, sizeVariation : BOOLEAN, static : {TRUE},
             random_frame : 0..(DataFrames - 1), trial_duration : {Undefined}] :
        t.isiMode = "blank" => t.frameDur = 3 }

StaticInit ==
    /\ trial \in StaticTrials
    /\ InitTickVars
    /\ InitSampled
    /\ sizecfg = TickSizeCfg
    /\ logScale \in TickLogScales
    /\ directionSign = 1
    /\ currentSizeFactor = Exp(logScale)
    /\ InitImported

StaticSpec == StaticInit /\ [][Next]_vars

\* Slow trials: a gap of 2000 s per frame, watched over their first few ms.
MaxSlowNow == 4         \* elapsed time (ms) after which SlowSpec requests no refresh

SlowTrials ==
    { t \in [fps : FpsValues, isi : {2000000}, isiSlows : {TRUE},
             isiMode : {"blank", "hold"}, frameDur : FrameDurValues,
             reversePlayback : BOOLEAN, sizeVariation : BOOLEAN, static : {FALSE},
             random_frame : {0},
             trial_duration : {Undefined}] :
        t.isiMode = "blank" => t.frameDur = 3 }

SlowInit ==
    /\ trial \in SlowTrials
    /\ InitTickVars
    /\ InitSampled
    /\ sizecfg = TickSizeCfg
    /\ logScale \in TickLogScales
    /\ directionSign \in {1, -1}
    /\ currentSizeFactor = Exp(logScale)
    /\ InitImported

SlowRefresh ==
    /\ now < MaxSlowNow
    /\ Refresh

SlowNext == StartTrial \/ SlowRefresh

SlowSpec == SlowInit /\ [][SlowNext]_vars

\* The size controller alone: any bounds, any step, any start, any draws.
SizeInit ==
    /\ trial = [fps |-> 500, isi |-> 0, isiSlows |-> TRUE, isiMode |-> "blank",
                frameDur |-> 3, reversePlayback |-> FALSE, sizeVariation |-> TRUE,
                static |-> FALSE, random_frame |-> 0,
                trial_duration |-> Undefined]
    /\ InitTickVars
    /\ InitSampled
    /\ sizecfg \in { c \in [logMin : -1..1, logMax : -1..(1 + MaxLogRange),
                           logStepBase : 1..MaxLogStep] :
                      c.logMin < c.logMax /\ c.logMax - c.logMin <= MaxLogRange }
    /\ logScale \in sizecfg.logMin..sizecfg.logMax
    /\ directionSign \in {1, -1}
    /\ currentSizeFactor = Exp(logScale)
    /\ InitImported

SizeUpdate ==
    /\ \E sign \in {1, -1} : updateSizeFactor(sign)
    /\ UNCHANGED <<tickVars, samplerVars>>

SizeNext == SizeUpdate

SizeSpec == SizeInit /\ [][SizeNext]_vars

\* The whole of plugin.trial: the grid loop over any grid, then the ticks.
GridDots == { TickDots, TickDots \o <<[x |-> 1, y |-> 2]>> }
GridTrials ==
    { t \in Trials : ~t.isiSlows /\ ~t.sizeVariation /\ t.trial_duration = Undefined }

TrialInit ==
    /\ trial \in GridTrials
    /\ InitTickVars
    /\ dot_pos \in GridDots
    /\ grid \in [binX_num : GridValues, binY_num : GridValues, offsetFactor : {0}]
    /\ cell = [x |-> 0, y |-> 0]
    /\ selectedDotIDs = <<>>
    /\ sizecfg = TickSizeCfg
    /\ logScale \in TickLogScales
    /\ directionSign = 1
    /\ currentSizeFactor = Exp(logScale)
    /\ InitImported

TrialNext == SampleCell \/ StartTrial \/ Refresh \/ end_trial

TrialSpec == TrialInit /\ [][TrialNext]_vars

\* The whole of plugin.trial from the import on, over inputs of up to MaxTuples
\* entries that may repeat or miss (id, frame) pairs or give them in any order.
MaxTuples == 4          \* most entries of trial.dot_pos explored by ImportSpec
ImportIds == {0, 1}
ImportFrames == {0, 1}
ImportTuple(id, f) ==
    [id |-> id, frame |-> f, X |-> TickDots[id + 1].x + f * (id + 1),
     Y |-> TickDots[id + 1].y + f]
ImportInputs ==
    UNION { [1..n -> { ImportTuple(id, f) : id \in ImportIds, f \in ImportFrames }] :
              n \in 1..MaxTuples }

ImportInit ==
    /\ trial = [fps |-> 500, isi |-> 0, isiSlows |-> FALSE, isiMode |-> "hold",
                frameDur |-> 0, reversePlayback |-> FALSE, sizeVariation |-> FALSE,
                static |-> FALSE, random_frame |-> 0,
                trial_duration |-> Num(ExplicitFrames * 2)]
    /\ tuples \in ImportInputs
    /\ now = 0
    /\ pending = "import"
    /\ interval = "none"
    /\ finishCount = 0
    /\ frameCounter = 0
    /\ lastDisplayedFrameIndex = -1
    /\ hasShownVisibleTickForThisFrame = FALSE
    /\ currentDisplayFrameStartTime = 0
    /\ blankFrameStartTime = 0
    /\ shouldAdvanceFrame = FALSE
    /\ sizeSteps = 0
    /\ canvas = [kind |-> "cleared"]
    /\ csv_frameData = <<>>
    /\ downloads = <<>>
    /\ dot_pos = <<>>
    /\ grid = [binX_num |-> 1, binY_num |-> 1, offsetFactor |-> 0]
    /\ cell = [x |-> 0, y |-> 0]
    /\ selectedDotIDs = <<>>
    /\ sizecfg = TickSizeCfg
    /\ logScale = 0
    /\ directionSign = 1
    /\ currentSizeFactor = Exp(logScale)

ImportNext ==
    \/ Import
    \/ pending = "call" /\ SampleCell
    \/ StartTrial
    \/ Refresh
    \/ end_trial

ImportSpec == ImportInit /\ [][ImportNext]_vars

\* The sampler alone: any dots on a small lattice, any grid, any draws.
DotSeqs(n) == [1..n -> [x : Coords, y : Coords]]

SamplerInit ==
    /\ trial = [fps |-> 500, isi |-> 0, isiSlows |-> TRUE, isiMode |-> "blank",
                frameDur |-> 3, reversePlayback |-> FALSE, sizeVariation |-> TRUE,
                static |-> FALSE, random_frame |-> 0,
                trial_duration |-> Undefined]
    /\ InitTickVars
    /\ \E n \in 1..MaxDots : dot_pos \in DotSeqs(n)
    /\ grid \in [binX_num : GridValues, binY_num : GridValues, offsetFactor : OffsetValues]
    /\ cell = [x |-> 0, y |-> 0]
    /\ selectedDotIDs = <<>>
    /\ sizecfg = TickSizeCfg
    /\ logScale = 0
    /\ directionSign = 1
    /\ currentSizeFactor = Exp(logScale)
    /\ InitImported

SamplerNext == SampleCell

SamplerSpec == SamplerInit /\ [][SamplerNext]_vars

(***************************************************************************)
(* Properties                                                              *)
(***************************************************************************)
Rows == DOMAIN csv_frameData
LastRow(rows) == rows[Len(rows)]
IsBlankRow(r) == r.displayFrameNumber = Blank
Ticked == frameCounter' # frameCounter
Ended == interval # "none"

\* C1: for logStep <= logMax - logMin, any start in [logMin, logMax] and any
\* draws, logScale stays within [logMin, logMax] after every updateSizeFactor.
C1_ScaleWithinBounds ==
    sizecfg.logStepBase <= sizecfg.logMax - sizecfg.logMin
      => sizecfg.logMin <= logScale /\ logScale <= sizecfg.logMax

\* C2: with size variation enabled a tick calls updateSizeFactor exactly once when
\* it changes the displayed frame index to a different index, and no tick calls it
\* otherwise; the size state changes on no tick without such a call.
C2_StepOncePerFrameChange ==
    [][Ticked =>
         LET prev == IF lastDisplayedFrameIndex = -1 THEN 0 ELSE lastDisplayedFrameIndex
             changed == trial.sizeVariation /\ lastDisplayedFrameIndex' # prev
         IN  /\ sizeSteps' = sizeSteps + (IF changed THEN 1 ELSE 0)
             /\ ~changed => logScale' = logScale /\ currentSizeFactor' = currentSizeFactor
             /\ changed => logScale' # logScale]_vars

C2_Witness ==
    /\ sizeSteps >= 2
    /\ Len(csv_frameData) > sizeSteps + 1
    /\ \E i \in Rows : IsBlankRow(csv_frameData[i])

\* C3: with isiSlows set and a gap I > 0 over N frames the trial keeps ticking
\* until elapsed time reaches base duration + (N-1)*I and ends on the first tick at
\* or after it, for a derived and for an explicit trial_duration.
C3_EndsAtExtendedDuration ==
    trial.isiSlows /\ trial.isi > 0
      => /\ Ended => now >= baseDuration + (frame_num - 1) * trial.isi
         /\ pending = "raf" => now < baseDuration + (frame_num - 1) * trial.isi

\* C4: the tick that observes elapsed time >= trial duration requests no further
\* tick and ends the trial, no tick runs after it, and end_trial (jsPsych.finishTrial)
\* runs exactly once: never twice, and once the trial has ended it has run or is due.
C4_EndedIsTerminal ==
    /\ [](Ended => pending = "none")
    /\ [](finishCount <= 1)
    /\ [](Ended => finishCount = 1 \/ ENABLED end_trial)
    /\ [][Ended => ~Ticked]_vars
    /\ [][Ticked /\ now' >= trial_duration => pending' = "none" /\ Ended']_vars

\* A trial of positive duration that has ended and sent its completion signal.
C4_Witness ==
    /\ interval = "cleared"
    /\ finishCount = 1
    /\ Len(csv_frameData) >= 2

C6_RowRecordsDrawnScale ==
    canvas.kind = "dots" => LastRow(csv_frameData).scalingFactor = Num(canvas.scale)

\* C8: in every row, width, height and scale are null exactly when the displayed
\* frame field is "blank".
C8_NullExactlyOnBlank ==
    \A i \in Rows :
        LET r == csv_frameData[i]
        IN  /\ (r.clothWidth = Null) <=> IsBlankRow(r)
            /\ (r.clothHeight = Null) <=> IsBlankRow(r)
            /\ (r.scalingFactor = Null) <=> IsBlankRow(r)

C8_Witness ==
    \E i, j \in Rows : i < j /\ ~IsBlankRow(csv_frameData[i]) /\ IsBlankRow(csv_frameData[j])

\* The elapsed time of the latest visible row.
LastVisibleTime(rows) ==
    LET vis == { i \in DOMAIN rows : ~IsBlankRow(rows[i]) }
    IN  rows[SetMax(vis)].timeElapsed

\* C9: in blank mode the first row is visible, and after a visible row no further
\* visible row is recorded before the gap has elapsed, so each cycle is one visible
\* row followed by its blank rows.
C9_OneVisibleRowPerCycle ==
    /\ [](trial.isiMode = "blank" /\ csv_frameData # <<>> => ~IsBlankRow(csv_frameData[1]))
    /\ [][(/\ trial.isiMode = "blank"
           /\ csv_frameData # <<>>
           /\ Len(csv_frameData') = Len(csv_frameData) + 1
           /\ ~IsBlankRow(LastRow(csv_frameData')))
          => now' - LastVisibleTime(csv_frameData) >= trial.isi]_vars

C9_Witness ==
    /\ trial.isiMode = "blank"
    /\ trial.isi > 0
    /\ \E i \in Rows :
         /\ i + 3 \in Rows
         /\ ~IsBlankRow(csv_frameData[i])
         /\ IsBlankRow(csv_frameData[i + 1])
         /\ ~IsBlankRow(csv_frameData[i + 2])
         /\ IsBlankRow(csv_frameData[i + 3])

C5_SelectionBounded ==
    grid.binX_num > 0 /\ grid.binY_num > 0
      => /\ Len(selectedDotIDs) <= grid.binX_num * grid.binY_num
         /\ Cardinality(Selected) = Len(selectedDotIDs)

C5_Witness ==
    /\ SamplingDone
    /\ grid.binX_num = 2 /\ grid.binY_num = 1
    /\ Len(dot_pos) = 3
    /\ dot_pos[1] = dot_pos[2]
    /\ Len(selectedDotIDs) = 2

\* C11: in blank mode with a gap of 0 no blank row is ever recorded: every running
\* tick records a visible row, whatever the tick timing and the trial length.
C11_NoBlankRowAtZeroGap ==
    /\ [](trial.isiMode = "blank" /\ trial.isi = 0
            => \A i \in Rows : ~IsBlankRow(csv_frameData[i]))
    /\ [][(trial.isiMode = "blank" /\ trial.isi = 0 /\ Ticked /\ pending' = "raf")
          => /\ Len(csv_frameData') = Len(csv_frameData) + 1
             /\ ~IsBlankRow(LastRow(csv_frameData'))
             /\ canvas'.kind = "dots"]_vars

C11_Witness ==
    /\ trial.isiMode = "blank"
    /\ trial.isi = 0
    /\ Len(csv_frameData) >= 3
    /\ csv_frameData[3].timeElapsed - csv_frameData[2].timeElapsed = 1
    /\ Ended

\* floor(t/duration*N), reversed in reverse playback, clamped to [0, N-1].
FloorIndex(t) ==
    LET raw == (t * frame_num) \div trial_duration
    IN  Max(0, Min(IF trial.reversePlayback THEN frame_num - 1 - raw ELSE raw,
                   frame_num - 1))

\* C12: for N >= 1 frames and duration > 0 the target index computed from the
\* elapsed time t, 0 <= t < duration, is floor(t/duration*N) in forward playback and
\* N-1-floor(t/duration*N) in reverse playback, clamped to [0, N-1]: a tick that
\* advances at elapsed time t displays that index.
C12_TargetIndexIsFloor ==
    (pending = "raf" /\ shouldAdvanceFrame) => lastDisplayedFrameIndex = FloorIndex(now)

\* The pairs of non-blank rows, the earlier row first.
VisiblePairs == { <<i, j>> \in Rows \X Rows :
                    i < j /\ ~IsBlankRow(csv_frameData[i]) /\ ~IsBlankRow(csv_frameData[j]) }

\* C13: in reverse playback the frame indices recorded in successive non-blank rows
\* of one trial, from the first tick on, never increase.
C13_ReverseNeverIncreases ==
    trial.reversePlayback
      => \A pr \in VisiblePairs :
            csv_frameData[pr[2]].displayFrameNumber.num
              <= csv_frameData[pr[1]].displayFrameNumber.num

\* C14: in forward playback the frame indices recorded in successive non-blank rows
\* of one trial never decrease (the elapsed times of the ticks never decrease).
C14_ForwardNeverDecreases ==
    ~trial.reversePlayback
      => \A pr \in VisiblePairs :
            csv_frameData[pr[1]].displayFrameNumber.num
              <= csv_frameData[pr[2]].displayFrameNumber.num

\* C15: if the configured trial duration is zero or negative the very first tick ends
\* the trial: it draws no dot, records no row, requests no further tick, and the
\* completion signal is still sent (end_trial has run or is due on its timer).
C15_NonPositiveDurationEndsAtOnce ==
    (trial.trial_duration # Undefined /\ trial.trial_duration.num <= 0 /\ frameCounter > 0)
      => /\ frameCounter = 1
         /\ canvas.kind = "cleared"
         /\ csv_frameData = <<>>
         /\ pending = "none"
         /\ finishCount = 1 \/ interval = "active"

\* C16: if gridX <= 0 or gridY <= 0 (both negative included) the selection is empty,
\* the renderer iterates over no dot on any tick and draws nothing, and no error is
\* raised, so that the trial can still reach Ended.
C16_DegenerateGridDrawsNothing ==
    (grid.binX_num <= 0 \/ grid.binY_num <= 0)
      => /\ selectedDotIDs = <<>>
         /\ canvas.kind = "cleared"
         /\ frameCounter > 0 => DrawnCount = 0
         /\ pending # "thrown"

\* C17: with the center-cloth flag set, after the re-centring pass the cloth centre
\* recomputed from the selected dots' reference frame (the centre of their bounding
\* box) equals the screen centre, for any selection.
C17_RecenteredAtScreenCenter ==
    (SamplingDone /\ selectedDotIDs # <<>>)
      => /\ recenteredX4 = 4 * screenCenter.x
         /\ recenteredY4 = 4 * screenCenter.y

\* The centre of cell (ix, iy), (min + (ix+0.5)*cellWidth, min + (iy+0.5)*cellHeight),
\* and the squared distance of dot d from it, in units of 1/(2*gridX*gridY).
CellUnit == 2 * grid.binX_num * grid.binY_num
CellCentreX(ix) == CellUnit * minX + (2 * ix + 1) * clothWidth * grid.binY_num
CellCentreY(iy) == CellUnit * minY + (2 * iy + 1) * clothHeight * grid.binX_num
CentreDistance2(d, ix, iy) ==
    (CellUnit * dot_pos[d].x - CellCentreX(ix)) * (CellUnit * dot_pos[d].x - CellCentreX(ix))
      + (CellUnit * dot_pos[d].y - CellCentreY(iy)) * (CellUnit * dot_pos[d].y - CellCentreY(iy))

\* C18: with jitter 0 each cell, visited in scan order, is assigned the not yet
\* selected dot nearest (Euclidean, reference frame) to the cell's centre, ties going
\* to the dot earliest in input order; every outcome of the two draws of the random
\* source gives the cell the same anchor, its centre, so that the ordered selection
\* is the same for every outcome.
C18_NearestUnselectedAtZeroJitter ==
    /\ [][(grid.offsetFactor = 0 /\ cell' # cell /\ DOMAIN dot_pos \ Selected # {})
          => \E d \in DOMAIN dot_pos \ Selected :
                /\ selectedDotIDs' = Append(selectedDotIDs, d)
                /\ \A e \in DOMAIN dot_pos \ Selected :
                      \/ CentreDistance2(d, cell.x, cell.y) < CentreDistance2(e, cell.x, cell.y)
                      \/ /\ CentreDistance2(d, cell.x, cell.y) = CentreDistance2(e, cell.x, cell.y)
                         /\ d <= e]_vars
    /\ [](grid.offsetFactor = 0 /\ ~SamplingDone
            => \A jx \in Jitters, jy \in Jitters :
                  /\ offsetX(cell.x, jx) = 2 * CellCentreX(cell.x)
                  /\ offsetY(cell.y, jy) = 2 * CellCentreY(cell.y))

C18_Witness ==
    /\ SamplingDone
    /\ grid = [binX_num |-> 2, binY_num |-> 2, offsetFactor |-> 0]
    /\ Len(dot_pos) = 3
    /\ dot_pos[2] = dot_pos[3]
    /\ selectedDotIDs = <<2, 1, 3>>

\* C19: for positive grid dimensions the number of selected trajectories is
\* min(number of dots, gridX*gridY) once the grid loop is over; with fewer dots than
\* cells every dot is selected exactly once and the other cells stay unfilled, and
\* nothing fails: the renderer's loop finds a trajectory for every id it reaches.
C19_SelectsMinOfDotsAndCells ==
    (SamplingDone /\ grid.binX_num > 0 /\ grid.binY_num > 0)
      => /\ Len(selectedDotIDs) = Min(Len(dot_pos), grid.binX_num * grid.binY_num)
         /\ Len(dot_pos) < grid.binX_num * grid.binY_num
              => /\ Selected = DOMAIN dot_pos
                 /\ Cardinality(Selected) = Len(selectedDotIDs)
         /\ ~RendererThrows

C19_Witness ==
    /\ SamplingDone
    /\ grid = [binX_num |-> 2, binY_num |-> 2, offsetFactor |-> 1]
    /\ Len(dot_pos) = 3
    /\ Len(selectedDotIDs) = 3

\* C20: if gridX or gridY (or a size bound) is missing or invalid, setup raises an
\* error synchronously and no tick executes.  Stated in its weakest reading: with
\* an invalid grid no call of move_disc runs to its end without an error.
C20_InvalidGridRunsNoTick ==
    ((grid.binX_num <= 0 \/ grid.binY_num <= 0) /\ pending # "thrown")
      => frameCounter = 0

\* The export and the log of C21, but for the export being made at every trial end.
ExportInTickOrder ==
    /\ [](Len(downloads) <= 1)
    /\ [][downloads' # downloads
          => /\ pending = "none"
             /\ downloads' = <<generateFrameByFrameCSV>>
             /\ Len(downloads'[1]) = Len(csv_frameData)]_vars
    /\ [][Ended => ~Ticked]_vars
    /\ [][/\ Len(csv_frameData') >= Len(csv_frameData)
          /\ SubSeq(csv_frameData', 1, Len(csv_frameData)) = csv_frameData]_vars
    /\ [](\A i \in Rows : i > 1
            => csv_frameData[i - 1].timeElapsed < csv_frameData[i].timeElapsed)

\* C21: the telemetry log is exported exactly once per trial, at trial end after the
\* last tick, with its rows in the order in which their ticks executed; a row once
\* appended is never modified, reordered or removed.
C21_ExportedOnceInTickOrder ==
    /\ ExportInTickOrder
    /\ [](Ended => Len(downloads) = 1 \/ ENABLED end_trial)

\* The elapsed time of the first row of the run of rows, up to the latest row, that
\* record the latest row's frame index.
HeldSince(rows) ==
    LET same == { i \in DOMAIN rows :
                    \A j \in i..Len(rows) :
                        rows[j].displayFrameNumber = rows[Len(rows)].displayFrameNumber }
    IN  rows[SetMin(same)].timeElapsed

\* C22: in hold mode the current frame is held on screen for the ISI duration (the
\* isi parameter) and then the display moves to the next frame: no tick displays
\* another frame before isi ms have passed since the current one was first shown.
C22_HoldLastsIsi ==
    [][(/\ trial.isiMode = "hold"
        /\ csv_frameData # <<>>
        /\ Len(csv_frameData') = Len(csv_frameData) + 1
        /\ LastRow(csv_frameData').displayFrameNumber
              # LastRow(csv_frameData).displayFrameNumber)
       => now' - HeldSince(csv_frameData) >= trial.isi]_vars

\* logScale + d * logStep lies in [logMin, logMax].
CandidateInRange(d) ==
    /\ sizecfg.logMin <= logScale + d * sizecfg.logStepBase
    /\ logScale + d * sizecfg.logStepBase <= sizecfg.logMax

C24_NoAdvanceKeepsSizeAndIndex ==
    [][(Ticked /\ ~shouldAdvanceFrame')
         => /\ logScale' = logScale
            /\ currentSizeFactor' = currentSizeFactor
            /\ directionSign' = directionSign
            /\ sizeSteps' = sizeSteps
            /\ lastDisplayedFrameIndex'
                 = (IF lastDisplayedFrameIndex = -1 THEN 0 ELSE lastDisplayedFrameIndex)
            /\ (canvas'.kind = "dots" /\ trial.sizeVariation)
                 => canvas'.scale = getPixelScale]_vars

\* A held tick and a blank-wait tick late enough for the target index to have moved
\* on: the rows of two consecutive ticks record the same index, or a blank, although
\* the index mapped from the elapsed time has changed.
C24_Witness ==
    /\ trial.sizeVariation
    /\ pending = "raf"
    /\ ~shouldAdvanceFrame
    /\ sizeSteps > 0
    /\ TargetIndex(now) # lastDisplayedFrameIndex

C26_BlankUntilGapElapsed ==
    [][(/\ trial.isiMode = "blank" /\ trial.isi > 0
        /\ Ticked /\ pending' = "raf"
        /\ csv_frameData # <<>>)
       => IF now' - LastVisibleTime(csv_frameData) >= trial.isi
          THEN /\ canvas'.kind = "dots"
               /\ lastDisplayedFrameIndex' = TargetIndex(now')
               /\ LastRow(csv_frameData').displayFrameNumber = Num(TargetIndex(now'))
          ELSE /\ canvas'.kind = "cleared"
               /\ IsBlankRow(LastRow(csv_frameData'))
               /\ lastDisplayedFrameIndex' = lastDisplayedFrameIndex]_vars

\* A visible tick, a blank tick 1 ms later and the next visible tick exactly at the
\* end of the gap, showing another frame.
C26_Witness ==
    /\ trial.isiMode = "blank"
    /\ trial.isi > 0
    /\ \E i \in Rows :
         /\ i + 2 \in Rows
         /\ ~IsBlankRow(csv_frameData[i])
         /\ IsBlankRow(csv_frameData[i + 1])
         /\ ~IsBlankRow(csv_frameData[i + 2])
         /\ csv_frameData[i + 2].timeElapsed = csv_frameData[i].timeElapsed + trial.isi
         /\ csv_frameData[i + 2].displayFrameNumber # csv_frameData[i].displayFrameNumber

\* C27: in blank mode each displayed frame is rendered visibly on exactly one tick:
\* no frame index appears in more than one non-blank row of a trial.
C27_BlankShowsEachFrameOnce ==
    trial.isiMode = "blank"
      => \A pr \in VisiblePairs :
            csv_frameData[pr[1]].displayFrameNumber # csv_frameData[pr[2]].displayFrameNumber

\* Every call of move_disc is entered from the one call of line 880 or from the
\* one request outstanding, and before it returns it makes exactly one of the two
\* scheduling calls: requestAnimationFrame (line 1129), leaving one request
\* outstanding, or window.setInterval (lines 902, 1132), leaving none.
OneSchedulingCallPerTick ==
    [][Ticked
        => /\ pending \in {"call", "raf"}
           /\ interval = "none"
           /\ \/ pending' = "raf" /\ interval' = interval
              \/ pending' = "none" /\ interval' # interval]_vars

\* C28: each tick either requests exactly one next tick or schedules the trial
\* end, never both and never more than one of either; so at most one tick is
\* pending at any time and no tick is entered while another is executing.
C28_RequestsNextTickOrSchedulesEnd ==
    [][Ticked
        => /\ pending \in {"call", "raf"}
           /\ interval = "none"
           /\ \/ pending' = "raf" /\ interval' = interval
              \/ pending' = "none" /\ interval' = "active"]_vars

\* C29: with isiSlows not set, or with a gap of 0, the ISI setting does not change
\* the trial duration: in both ISI modes the trial ends on the first tick whose
\* elapsed time is at least the base duration, and on no earlier tick.
C29_IsiLeavesDurationUnchanged ==
    [][(Ticked /\ (trial.isiSlows # TRUE \/ trial.isi = 0))
        => IF now' >= baseDuration
           THEN /\ pending' = "none"
                /\ interval' # "none"
                /\ pending = "raf" => interval' = "active"
                /\ csv_frameData' = csv_frameData
           ELSE /\ pending' = "raf"
                /\ interval' = "none"
                /\ Len(csv_frameData') = Len(csv_frameData) + 1]_vars

C29_Witness ==
    /\ trial.isi > 0 /\ trial.isiSlows = FALSE
    /\ trial.trial_duration = Undefined
    /\ interval = "active"
    /\ now >= baseDuration
    /\ now < baseDuration + oneCycleIsi
    /\ csv_frameData # <<>>
    /\ LastRow(csv_frameData).timeElapsed < baseDuration

\* The reference-frame position, doubled, of the i-th selected dot when the size
\* setup runs: moved by the re-centring pass under the flag, as sampled otherwise.
ReferenceX2(centerCloth, i) ==
    2 * dot_pos[selectedDotIDs[i]].x + (IF centerCloth = TRUE THEN deltaX2 ELSE 0)
ReferenceY2(centerCloth, i) ==
    2 * dot_pos[selectedDotIDs[i]].y + (IF centerCloth = TRUE THEN deltaY2 ELSE 0)

\* C30: for both values of the center-cloth flag, the position set from which the
\* initial diagonal D is measured contains the reference-frame position of every
\* selected dot, so it is non-empty whenever the selection is non-empty.
C30_SizingSetHoldsEverySelectedDot ==
    (SamplingDone /\ selectedDotIDs # <<>>)
      => \A centerCloth \in BOOLEAN :
            /\ allX2(centerCloth) # {} /\ allY2(centerCloth) # {}
            /\ \A i \in DOMAIN selectedDotIDs :
                  /\ ReferenceX2(centerCloth, i) \in allX2(centerCloth)
                  /\ ReferenceY2(centerCloth, i) \in allY2(centerCloth)

\* C31: trajectory input whose number of entries differs from (distinct ids) x
\* (distinct frame numbers) is rejected with an error at setup: the import does
\* not complete and no tick executes.
C31_MiscountedInputRejected ==
    Len(tuples) # dot_num * importFrameNum
      => /\ pending \in {"import", "thrown"}
         /\ frameCounter = 0

\* Every trial whose first tick does not already end it reaches Ended and calls
\* jsPsych.finishTrial.
LaterEndCompletes == ~TrialOver(0) => <>(Ended /\ finishCount = 1)

\* C32: if the host keeps delivering ticks, every trial with a finite duration
\* eventually reaches Ended and sends its completion signal, in both ISI modes and
\* for any gap, frameDur and frame count, zero frames (a duration of 0) included.
C32_EveryTrialCompletes == trial_duration >= 0 => <>(Ended /\ finishCount = 1)

\* The tick that the refresh delivered gap ms from now would be.
TickAfter(gap) == Refresh /\ now' = now + gap

C34_IndexWithinTrajectory ==
    \A i \in Rows :
       ~IsBlankRow(csv_frameData[i])
         => /\ 0 <= csv_frameData[i].displayFrameNumber.num
            /\ csv_frameData[i].displayFrameNumber.num <= frame_num - 1
            /\ PositionExists(csv_frameData[i].displayFrameNumber.num)

\* The extent of the positions the canvas shows: those of the selected dots at
\* the frame and scale drawn.
DrawnExtentX ==
    ExtentOf({ Scaled(clothCenterX2, dot_posX(selectedDotIDs[i], canvas.index), canvas.scale) :
                 i \in 1..DrawnCount })
DrawnExtentY ==
    ExtentOf({ Scaled(clothCenterY2, dot_posY(selectedDotIDs[i], canvas.index), canvas.scale) :
                 i \in 1..DrawnCount })

\* C35: in every non-blank row the displayed frame number is the index of the
\* frame whose positions were drawn on that tick, and the width and height are the
\* extents of the bounding box of exactly those drawn positions, for an animated
\* and for a static display.
C35_RowDescribesDrawnFrame ==
    (canvas.kind = "dots" /\ pending = "raf")
      => /\ LastRow(csv_frameData).displayFrameNumber = Num(canvas.index)
         /\ LastRow(csv_frameData).clothWidth = DrawnExtentX
         /\ LastRow(csv_frameData).clothHeight = DrawnExtentY

\* In every non-blank row the width and height are the extents of the drawn
\* positions.
RowExtentsAreDrawnExtents ==
    (canvas.kind = "dots" /\ pending = "raf")
      => /\ LastRow(csv_frameData).clothWidth = DrawnExtentX
         /\ LastRow(csv_frameData).clothHeight = DrawnExtentY

\* C36: the phase (visible or blank) and the displayed frame index of every tick
\* are determined by the tick's timestamp, the timing configuration and the
\* schedule state these determined on the ticks before; the size controller's draws
\* and state and the sizeVariation flag have no part in them.
C36_ScheduleIgnoresSize ==
    [][Ticked =>
         LET t == now'
             idx0 == IF lastDisplayedFrameIndex = -1 THEN 0 ELSE lastDisplayedFrameIndex
             start0 == IF lastDisplayedFrameIndex = -1 THEN t
                       ELSE currentDisplayFrameStartTime
             hold == trial.isiMode = "hold"
             adv == IF hold
                    THEN t - start0 >= trial.frameDur
                    ELSE /\ hasShownVisibleTickForThisFrame
                         /\ (trial.isi = 0 \/ t - blankFrameStartTime >= trial.isi)
             idx1 == IF adv THEN TargetIndex(t) ELSE idx0
             visible == hold \/ adv \/ ~hasShownVisibleTickForThisFrame
         IN  IF TrialOver(t)
             THEN pending' = "none" /\ csv_frameData' = csv_frameData
             ELSE /\ pending' = "raf"
                  /\ lastDisplayedFrameIndex' = idx1
                  /\ currentDisplayFrameStartTime' = (IF adv THEN t ELSE start0)
                  /\ hasShownVisibleTickForThisFrame' =
                        (IF hold THEN ~adv /\ hasShownVisibleTickForThisFrame ELSE TRUE)
                  /\ blankFrameStartTime' =
                        (IF ~hold /\ visible THEN t ELSE blankFrameStartTime)
                  /\ LastRow(csv_frameData').displayFrameNumber =
                        (IF visible THEN Num(idx1) ELSE Blank)
                  /\ LastRow(csv_frameData').timeElapsed = t
                  /\ canvas'.kind = "dots" <=> visible]_vars

\* A trial with size variation has stepped the size at least twice, the latest
\* step growing the cloth from its lower bound, with a blank tick among its rows
\* and a visible tick the latest.
C36_Witness ==
    /\ trial.sizeVariation = TRUE
    /\ sizeSteps >= 2
    /\ directionSign = 1
    /\ logScale = sizecfg.logMin + sizecfg.logStepBase
    /\ \E i \in Rows : i > 1 /\ IsBlankRow(csv_frameData[i])
    /\ ~IsBlankRow(LastRow(csv_frameData))

====
